---- MODULE Spec2Model ----
(***************************************************************************)
(* A model of fetch.py: one process run of main() after another over the  *)
(* same store file.  Python values are records [t |-> type, v |-> data]   *)
(* so that a bytes object and a str object with the same characters are   *)
(* different values, as they are in Python 3.                             *)
(***************************************************************************)
EXTENDS Integers, Sequences, FiniteSets, TLC

\* ------------------------------------------------------------------ bounds
\* The mailbox holds the UIDs 1..MaxUid.
MaxUid == 2

\* The optional command-line arguments are all the strings over Alphabet of
\* at most MaxArgLen characters, and the strings of LongArgs.
MaxArgLen == 1

\* ------------------------------------------------------- program constants
timeout_wait == 30
timeout_limit == 3
\* imap_port = 993
DefaultPort == 993

\* ----------------------------------------------------------- Python values
Bytes(s) == [t |-> "bytes", v |-> s]
Str(s) == [t |-> "str", v |-> s]
PyInt(n) == [t |-> "int", v |-> <<n>>]
None == [t |-> "NoneType", v |-> <<>>]
\* A (envelope, literal) pair of an imaplib response; only the literal is read.
Tuple(lit) == [t |-> "tuple", v |-> lit]

\* Bytes are numbers; the ones below 128 are ASCII, 255 is valid nowhere in
\* UTF-8.
IsAscii(c) == c < 128

\* bytes.decode(): strict UTF-8.  The UID tokens are ASCII digits.
DecodeStrict(b) == Str(b.v)

\* bytes.decode(errors='ignore'): the undecodable bytes are dropped.
DecodeIgnore(b) == Str(SelectSeq(b.v, IsAscii))

\* bool(x) as the 'if header:' test takes it.
Truthy(x) ==
    CASE x.t = "NoneType" -> FALSE
      [] x.t = "int" -> x.v[1] # 0
      [] OTHER -> Len(x.v) > 0

\* x[1] does not raise.
CanSubscript1(x) ==
    CASE x.t = "tuple" -> TRUE
      [] x.t = "bytes" -> Len(x.v) >= 2
      [] OTHER -> FALSE

\* x[1]: the literal of a pair, the second byte (an int) of a bytes line.
Subscript1(x) == IF x.t = "tuple" THEN Bytes(x.v) ELSE PyInt(x.v[2])

\* ------------------------------------------------------------ server inputs
\* The tokens of a UID SEARCH answer: b'1', b'2', ...
UidTokens == { Bytes(<<48 + i>>) : i \in 1..MaxUid }

\* Header literals a server may send: empty, plain ASCII, and one holding a
\* byte that does not decode.
Payloads == { <<>>, <<65>>, <<66, 255>> }

\* An untagged FETCH line without a literal, b'1 (': what imaplib puts first
\* in the response list for e.g. an unsolicited flag update.
FlatLine == <<49, 32, 40>>

\* What one mail.uid('FETCH', ...) call does: raise IMAP4.abort, raise some
\* other exception, or return (status, response) with response[0] as given.
FetchOutcomes ==
    { [status |-> "abort", resp0 |-> None],
      [status |-> "raise", resp0 |-> None],
      [status |-> "NO", resp0 |-> None],
      [status |-> "OK", resp0 |-> None],
      [status |-> "OK", resp0 |-> Bytes(FlatLine)] }
    \cup { [status |-> "OK", resp0 |-> Tuple(p)] : p \in Payloads }

NoOutcome == [status |-> "", resp0 |-> None]

\* The attempt raised, or was answered with a status other than OK.
IsError(out) == out.status # "OK"

\* What opening the session meets.
InitOutcomes ==
    { "ok", "select_no", "login_rejected", "host_unresolved", "connect_refused" }

\* ------------------------------------------------------------------- JSON
RECURSIVE LexLess(_, _)
LexLess(a, b) ==
    IF a = <<>> THEN b # <<>>
    ELSE IF b = <<>> THEN FALSE
    ELSE IF a[1] # b[1] THEN a[1] < b[1]
    ELSE LexLess(Tail(a), Tail(b))

RECURSIVE SortedKeys(_)
SortedKeys(S) ==
    IF S = {} THEN <<>>
    ELSE LET m == CHOOSE x \in S : \A y \in S \ {x} : LexLess(x.v, y.v)
         IN <<m>> \o SortedKeys(S \ {m})

\* json.dump(store, file, sort_keys=True): the members in key order.
JsonDump(d) ==
    LET ks == SortedKeys(DOMAIN d)
    IN [i \in 1..Len(ks) |-> <<ks[i].v, d[ks[i]].v>>]

\* json.load(file): a dict with str keys and str values.
JsonLoad(text) ==
    [k \in { Str(text[i][1]) : i \in 1..Len(text) } |->
        Str((CHOOSE m \in { text[i] : i \in 1..Len(text) } : m[1] = k.v)[2])]

NoFile == [exists |-> FALSE, text |-> <<>>]
EmptyDict == [k \in {} |-> None]

\* store[key] = value
SetItem(d, key, value) ==
    [k \in DOMAIN d \cup {key} |-> IF k = key THEN value ELSE d[k]]

\* ---------------------------------------------------------------- logging
Rec(level, msg, arg) == [level |-> level, msg |-> msg, arg |-> arg]

Pending == [t |-> "pending", v |-> <<>>]

\* ------------------------------------------------------ the command line
\* A command-line argument is the sequence of its characters.
DigitChars == {"0", "1", "2", "3", "4", "5", "6", "7", "8", "9"}

DigitVal(c) ==
    CASE c = "0" -> 0 [] c = "1" -> 1 [] c = "2" -> 2 [] c = "3" -> 3
      [] c = "4" -> 4 [] c = "5" -> 5 [] c = "6" -> 6 [] c = "7" -> 7
      [] c = "8" -> 8 [] c = "9" -> 9

\* str.strip() of the blanks, as int() does before it reads the literal.
RECURSIVE Strip(_)
Strip(s) ==
    IF s = <<>> THEN s
    ELSE IF s[1] = " " THEN Strip(Tail(s))
    ELSE IF s[Len(s)] = " " THEN Strip(SubSeq(s, 1, Len(s) - 1))
    ELSE s

\* The digits of a decimal literal: digits, with single underscores between
\* them.
IsDigits(b) ==
    /\ b # <<>>
    /\ b[1] \in DigitChars
    /\ b[Len(b)] \in DigitChars
    /\ \A i \in 1..Len(b) : b[i] \in DigitChars \cup {"_"}
    /\ \A i \in 1..(Len(b) - 1) : ~(b[i] = "_" /\ b[i + 1] = "_")

RECURSIVE DigitsValue(_)
DigitsValue(b) ==
    IF b = <<>> THEN 0
    ELSE IF b[Len(b)] = "_" THEN DigitsValue(SubSeq(b, 1, Len(b) - 1))
    ELSE 10 * DigitsValue(SubSeq(b, 1, Len(b) - 1)) + DigitVal(b[Len(b)])

\* int(value) of a str: [ok |-> TRUE, n |-> the number], or ok = FALSE
\* where Python raises ValueError.
int(value) ==
    LET t == Strip(value)
        signed == t # <<>> /\ t[1] \in {"+", "-"}
        b == IF signed THEN Tail(t) ELSE t
    IN  IF IsDigits(b)
        THEN [ok |-> TRUE,
              n |-> IF signed /\ t[1] = "-" THEN 0 - DigitsValue(b)
                    ELSE DigitsValue(b)]
        ELSE [ok |-> FALSE, n |-> 0]

\* Mutant: the upper end of the range is left out.
is_valid_port_Exclusive(value) ==
    int(value).ok /\ 1 <= int(value).n /\ int(value).n < 65535

is_valid_port(value) ==
    int(value).ok /\ 1 <= int(value).n /\ int(value).n <= 65535

\* sys.argv[i]
Arg(av, i) == av[i + 1]

Inbox == << "I", "n", "b", "o", "x" >>
NoArgs == [mailbox |-> <<>>, imap_port |-> 0]

\* parse_arguments() over sys.argv = av: what it prints, whether it calls
\* sys.exit(1), and the mailbox and the port it returns.
parse_arguments(av) ==
    LET argc == Len(av)
        port4 == argc > 4 /\ is_valid_port(Arg(av, 4))
        mailbox == IF argc > 4 /\ ~port4 THEN Arg(av, 4) ELSE Inbox
        imap_port == IF port4 THEN int(Arg(av, 4)).n ELSE DefaultPort
    IN  IF argc < 4
        THEN [exit |-> TRUE, printed |-> "Usage", args |-> NoArgs]
        ELSE IF argc > 5 /\ ~is_valid_port(Arg(av, 5))
        THEN [exit |-> TRUE, printed |-> "Error: Invalid port number provided.",
              args |-> NoArgs]
        ELSE [exit |-> FALSE, printed |-> "",
              args |-> [mailbox |-> mailbox,
                        imap_port |-> IF argc > 5 THEN int(Arg(av, 5)).n
                                      ELSE imap_port]]

\* The command lines.
Alphabet == {"0", "7", "a", "-", "_", " "}
LongArgs ==
    { << "9", "9", "3" >>, << "+", "2", "5" >>, << "6", "5", "5", "3", "5" >>,
      << "6", "5", "5", "3", "6" >>, << "7", "0", "0", "0", "0" >>,
      << "A", "r", "c", "h", "i", "v", "e" >> }
ArgStrings ==
    LongArgs \cup UNION { [1..n -> Alphabet] : n \in 0..MaxArgLen }

\* python fetch.py <imap_host> <username> <password>
UsualArgv == << << "f" >>, << "h" >>, << "u" >>, << "p" >> >>

\* From the bare program name up to one argument more than parse_arguments
\* reads.
ArgvInputs ==
    { SubSeq(UsualArgv, 1, n) : n \in 1..4 }
    \cup { UsualArgv \o << a >> : a \in ArgStrings }
    \cup { UsualArgv \o << a, b >> : a \in ArgStrings, b \in ArgStrings }
    \cup { UsualArgv \o << a, b, << "x" >> >> : a \in ArgStrings, b \in LongArgs }

\* The command lines of the runs that follow one another: the usual one, and
\* two that parse_arguments turns down.
RunArgvs ==
    { UsualArgv, SubSeq(UsualArgv, 1, 3),
      UsualArgv \o << << "a" >>, << "0" >> >> }

VARIABLES
    file,          \* <username>/data_unseen.json on disk
    pc,            \* where the process is
    exit_status,   \* <<>> while it runs, <<code>> once it has exited
    uncaught,      \* the exception that ended it, "" if none
    store,         \* main's store dict
    mail_state,    \* the imaplib connection state
    unread_uids,   \* main's unread_uids
    new_uids,      \* main's new_uids
    todo,          \* the part of new_uids the for loop has not reached
    uid,           \* the loop variable
    retry_count,   \* fetch_email_header's retry_count
    header,        \* fetch_email_header's return value, main's header
    logged,        \* the records the last step appended to the log file
    saved,         \* whether this run has executed save_store
    file0,         \* history: the store file at process start
    opened,        \* history: what initialize_imap met
    store0,        \* history: the store as load_store returned it
    fetched,       \* history: UID -> what fetch_email_header returned for it
                   \* and the FETCH answer it returned on
    attempts,      \* history: FETCH commands issued in the call of
                   \* fetch_email_header that is under way or has just returned
    sleeps,        \* history: the time.sleep calls of that call
    errors,        \* history: attempts of that call that raised or
                   \* were answered with a status other than OK
    last,          \* history: what the latest FETCH command of that call met
    prev,          \* history: the previous run, until this run's search
    sessions,      \* history: sessions this run has opened (connect, login
                   \* and select, whatever came of them)
    total,         \* history: FETCH commands issued in this run, where the
                   \* specification keeps count of them
    argv,          \* sys.argv
    args,          \* what parse_arguments returned: mailbox and imap_port
    printed,       \* what the process printed to standard output
    made_dir,      \* history: this run called ensure_directory_exists
    deferred,      \* history: the UIDs the previous run gave up on that
                   \* this run's search returned again
    repeat         \* history: the previous run fetched every new UID
                   \* successfully and this run's search result is the same

vars == << file, pc, exit_status, uncaught, store, mail_state, unread_uids,
           new_uids, todo, uid, retry_count, header, logged, saved, file0,
           opened, store0, fetched, attempts, sleeps, errors, last, prev,
           argv, args, printed, made_dir, deferred, repeat, total, sessions >>

NoPrev == [allok |-> FALSE, search |-> {}, gaveup |-> {}]

\* The state a fresh process starts in, but for its command line.
Started ==
    /\ file = NoFile
    /\ pc = "parse_arguments"
    /\ args = NoArgs
    /\ printed = ""
    /\ made_dir = FALSE
    /\ exit_status = <<>>
    /\ uncaught = ""
    /\ store = EmptyDict
    /\ mail_state = "NONAUTH"
    /\ unread_uids = {}
    /\ new_uids = {}
    /\ todo = {}
    /\ uid = None
    /\ retry_count = 0
    /\ header = None
    /\ logged = <<>>
    /\ saved = FALSE
    /\ file0 = NoFile
    /\ opened = ""
    /\ store0 = EmptyDict
    /\ fetched = EmptyDict
    /\ attempts = 0
    /\ sleeps = <<>>
    /\ errors = 0
    /\ last = NoOutcome
    /\ prev = NoPrev
    /\ repeat = FALSE
    /\ sessions = 0
    /\ total = 0
    /\ deferred = {}

Init == Started /\ argv \in RunArgvs

\* ---------------------------------------------------------- parse_arguments
ParseArguments ==
    /\ pc = "parse_arguments"
    /\ printed' = parse_arguments(argv).printed
    /\ args' = parse_arguments(argv).args
    /\ IF parse_arguments(argv).exit
       THEN /\ pc' = "exit"
            /\ exit_status' = << 1 >>
       ELSE /\ pc' = "main"
            /\ UNCHANGED exit_status
    /\ UNCHANGED << file, uncaught, store, mail_state, unread_uids, new_uids,
                    todo, uid, retry_count, header, logged, saved, file0,
                    opened, store0, fetched, attempts, sleeps, errors, last,
                    prev, argv, made_dir, deferred, repeat, total, sessions >>

\* --------------------------------------------------------------- load_store
load_store(f) == IF f.exists THEN JsonLoad(f.text) ELSE EmptyDict

\* main up to the call of initialize_imap: the directory, the logger, the
\* store.
LoadStore ==
    /\ pc = "main"
    /\ store' = load_store(file)
    /\ store0' = store'
    /\ logged' = << IF file.exists
                    THEN Rec("INFO", "Loaded emails from existing store",
                             PyInt(Cardinality(DOMAIN store')))
                    ELSE Rec("INFO", "No existing store found", None) >>
    /\ made_dir' = TRUE
    /\ pc' = "initialize_imap"
    /\ UNCHANGED << file, exit_status, uncaught, mail_state, unread_uids,
                    new_uids, todo, uid, retry_count, header, saved, file0,
                    opened, fetched, attempts, sleeps, errors, last, prev,
                    argv, args, printed, deferred, repeat, total, sessions >>

\* ---------------------------------------------------------- initialize_imap
\* sys.exit(1) after the except clauses; an exception no clause names leaves
\* main uncaught, which ends the interpreter with status 1 as well.
ExitCode(o) == 1

\* Mutant: both except clauses log the credentials message.
LoginErrorRecord_Same(o) ==
    Rec("ERROR", "Failed to log in. Please check user credentials.", None)

LoginErrorRecord(o) ==
    IF o = "login_rejected"
    THEN Rec("ERROR", "Failed to log in. Please check user credentials.", None)
    ELSE Rec("ERROR", "Failed to log in. Please check host name.", None)

InitializeImap(o) ==
    /\ pc = "initialize_imap"
    /\ IF o \in {"ok", "select_no"}
       THEN /\ logged' = << Rec("INFO", "Attempting IMAP login", None),
                            Rec("INFO", "Successfully logged in", None) >>
            /\ mail_state' = IF o = "ok" THEN "SELECTED" ELSE "AUTH"
            /\ pc' = "search"
            /\ UNCHANGED << exit_status, uncaught >>
       ELSE IF o \in {"login_rejected", "host_unresolved"}
       THEN /\ logged' = << Rec("INFO", "Attempting IMAP login", None),
                            LoginErrorRecord(o) >>
            /\ pc' = "exit"
            /\ exit_status' = << ExitCode(o) >>
            /\ UNCHANGED << mail_state, uncaught >>
       ELSE /\ logged' = << Rec("INFO", "Attempting IMAP login", None) >>
            /\ pc' = "exit"
            /\ exit_status' = << ExitCode(o) >>
            /\ uncaught' = "OSError"
            /\ UNCHANGED mail_state
    /\ opened' = o
    /\ sessions' = sessions + 1
    /\ UNCHANGED << file, store, unread_uids, new_uids, todo, uid,
                    retry_count, header, saved, file0, store0, fetched,
                    attempts, sleeps, errors, last, prev, argv, args, printed,
                    made_dir, deferred, repeat, total >>

\* ------------------------------------------------------- main: the search
\* unread_uids - store.keys(): Python's set difference, by == of the members.
NewUids(unread, d) == unread \ DOMAIN d

\* mail.uid('SEARCH', ...) raises IMAP4.error unless a mailbox is selected.
Search(result) ==
    /\ pc = "search"
    /\ IF mail_state = "SELECTED"
       THEN /\ unread_uids' = result
            /\ new_uids' = NewUids(result, store)
            /\ todo' = new_uids'
            /\ logged' = << Rec("INFO", "Fetching unread emails from mailbox", None),
                            Rec("INFO", "unread emails found, new to fetch",
                                PyInt(Cardinality(new_uids'))) >>
            /\ pc' = "loop"
            /\ UNCHANGED << exit_status, uncaught >>
       ELSE /\ logged' = << Rec("INFO", "Fetching unread emails from mailbox", None) >>
            /\ pc' = "exit"
            /\ exit_status' = << 1 >>
            /\ uncaught' = "IMAP4.error"
            /\ UNCHANGED << unread_uids, new_uids, todo >>
    /\ repeat' = (mail_state = "SELECTED" /\ prev.allok /\ prev.search = result)
    /\ prev' = NoPrev
    /\ deferred' = IF mail_state = "SELECTED" THEN prev.gaveup \cap result ELSE {}
    /\ UNCHANGED << file, store, mail_state, uid, retry_count, header, saved,
                    file0, opened, store0, fetched, attempts, sleeps, errors,
                    last, argv, args, printed, made_dir, total, sessions >>

\* -------------------------------------------------------- fetch_email_header
\* Mutant: the loop goes round once more.
LoopCond_OneMore(rc, limit) == rc <= limit + 1

\* Mutant: the loop stops one attempt early.
LoopCond_Strict(rc, limit) == rc < limit

\* while retry_count <= timeout_limit
LoopCond(rc, limit) == rc <= limit

\* Mutant: the sleep is not skipped before the first attempt.
SleepsBefore_EveryAttempt(rc) == rc >= 0

\* if retry_count > 0: ... time.sleep(timeout_wait)
SleepsBefore(rc) == rc > 0

\* The top of the while loop with retry_count = rc, for UID u, after the
\* records lg: on to the sleep, on to the attempt, or out of the loop to the
\* terminal error and 'return None'.
LoopHead(rc, u, lg, f) ==
    IF LoopCond(rc, timeout_limit)
    THEN /\ pc' = IF SleepsBefore(rc) THEN "waiting" ELSE "attempting"
         /\ logged' = IF SleepsBefore(rc)
                      THEN Append(lg, Rec("INFO", "Retrying", u))
                      ELSE lg
         /\ fetched' = f
         /\ UNCHANGED header
    ELSE /\ pc' = "returned"
         /\ logged' = Append(lg, Rec("ERROR", "Failed to fetch UID", u))
         /\ header' = None
         /\ fetched' = SetItem(f, u, [ret |-> None, out |-> NoOutcome])

\* for uid in new_uids: header = fetch_email_header(mail, uid, 0, ...)
\* A set is iterated in no particular order.
ForNext ==
    /\ pc = "loop"
    /\ todo # {}
    /\ \E u \in todo :
        /\ uid' = u
        /\ todo' = todo \ {u}
        /\ retry_count' = 0
        /\ LoopHead(0, u, <<>>, SetItem(fetched, u, [ret |-> Pending, out |-> NoOutcome]))
    /\ attempts' = 0
    /\ sleeps' = <<>>
    /\ errors' = 0
    /\ last' = NoOutcome
    /\ UNCHANGED << file, exit_status, uncaught, store, mail_state,
                    unread_uids, new_uids, saved, file0, opened, store0,
                    prev, argv, args, printed,
                    made_dir, deferred, repeat, total, sessions >>

\* time.sleep(timeout_wait)
Sleep ==
    /\ pc = "waiting"
    /\ sleeps' = Append(sleeps, timeout_wait)
    /\ logged' = <<>>
    /\ pc' = "attempting"
    /\ UNCHANGED << file, exit_status, uncaught, store, mail_state,
                    unread_uids, new_uids, todo, uid, retry_count, header,
                    saved, file0, opened, store0, fetched, attempts, errors,
                    last, prev, argv, args, printed,
                    made_dir, deferred, repeat, total, sessions >>

\* The try block returns: status == 'OK' and response[0][1] evaluates.
Returns(out) == out.status = "OK" /\ CanSubscript1(out.resp0)

\* The exception the try block raises: the one mail.uid raises, or the
\* TypeError / IndexError of response[0][1]; "" when it raises none.
Raised(out) ==
    CASE out.status = "abort" -> "IMAP4.abort"
      [] out.status = "raise" -> "Exception"
      [] out.status = "OK" /\ ~CanSubscript1(out.resp0) ->
            IF out.resp0.t = "bytes" THEN "IndexError" ELSE "TypeError"
      [] OTHER -> ""

\* Mutant: only the protocol abort is caught.
Caught_AbortOnly(exc) == exc = "IMAP4.abort"

\* except imaplib.IMAP4.abort / except Exception: every exception the try
\* block raises is an Exception.
Caught(exc) ==
    exc \in {"IMAP4.abort", "Exception", "TypeError", "IndexError"}

\* What the attempt's branch logs when it does not return.
FailureRecord(out, u) ==
    CASE out.status = "abort" ->
            Rec("ERROR", "Connection closed by server while fetching UID", u)
      [] out.status = "NO" ->
            Rec("WARNING", "Problem fetching header for UID", u)
      [] OTHER ->
            Rec("ERROR", "Unexpected error while fetching UID", u)

\* Mutant: a closed connection is opened again.
Reconnects_OnAbort(out) == out.status = "abort"

\* Whether fetch_email_header opens a session after the attempt met out: no
\* branch of it connects, logs in or selects.
Reconnects(out) == FALSE

\* One pass through the try statement, and on to the top of the loop; t is
\* the count of the run's FETCH commands after it.
FetchAttemptCounting(out, t) ==
    /\ pc = "attempting"
    /\ attempts' = attempts + 1
    /\ total' = t
    /\ sessions' = IF Reconnects(out) THEN sessions + 1 ELSE sessions
    /\ last' = out
    /\ errors' = IF IsError(out) THEN errors + 1 ELSE errors
    /\ IF Returns(out)
       THEN /\ header' = Subscript1(out.resp0)
            /\ logged' = << Rec("INFO", "Successfully fetched header for UID", uid) >>
            /\ fetched' = SetItem(fetched, uid, [ret |-> header', out |-> out])
            /\ pc' = "returned"
            /\ UNCHANGED retry_count
            /\ UNCHANGED << exit_status, uncaught >>
       ELSE IF Raised(out) # "" /\ ~Caught(Raised(out))
       THEN /\ pc' = "exit"
            /\ exit_status' = << 1 >>
            /\ uncaught' = Raised(out)
            /\ logged' = <<>>
            /\ UNCHANGED << retry_count, header, fetched >>
       ELSE /\ retry_count' = retry_count + 1
            /\ LoopHead(retry_count + 1, uid, << FailureRecord(out, uid) >>, fetched)
            /\ UNCHANGED << exit_status, uncaught >>
    /\ UNCHANGED << file, store, mail_state, unread_uids, new_uids, todo, uid,
                    saved, file0, opened, store0, sleeps, prev, argv, args,
                    printed,
                    made_dir, deferred, repeat >>

FetchAttempt(out) == FetchAttemptCounting(out, total)

\* ------------------------------------------------- main: the loop body's if
\* Mutant: recording a header drops what the store held.
StoreAfter_Replace(d, u, h) ==
    IF Truthy(h) THEN SetItem(EmptyDict, DecodeStrict(u), DecodeIgnore(h)) ELSE d

\* Mutant: a UID without a header is recorded with an empty text.
StoreAfter_Always(d, u, h) ==
    SetItem(d, DecodeStrict(u), IF Truthy(h) THEN DecodeIgnore(h) ELSE Str(<<>>))

\* if header: store[uid.decode()] = header.decode(errors='ignore')
\* for a header that has a decode method.
StoreAfter(d, u, h) ==
    IF Truthy(h) THEN SetItem(d, DecodeStrict(u), DecodeIgnore(h)) ELSE d

\* header.decode raises AttributeError: the header is true and is no bytes.
DecodeRaises(h) == Truthy(h) /\ h.t # "bytes"

Record ==
    /\ pc = "returned"
    /\ IF DecodeRaises(header)
       THEN /\ pc' = "exit"
            /\ exit_status' = << 1 >>
            /\ uncaught' = "AttributeError"
            /\ UNCHANGED store
       ELSE /\ store' = StoreAfter(store, uid, header)
            /\ pc' = "loop"
            /\ UNCHANGED << exit_status, uncaught >>
    /\ logged' = <<>>
    /\ attempts' = 0
    /\ sleeps' = <<>>
    /\ errors' = 0
    /\ last' = NoOutcome
    /\ UNCHANGED << file, mail_state, unread_uids, new_uids, todo, uid,
                    retry_count, header, saved, file0, opened, store0,
                    fetched, prev, argv, args, printed,
                    made_dir, deferred, repeat, total, sessions >>

\* --------------------------------------------------------------- save_store
save_store(d) == [exists |-> TRUE, text |-> JsonDump(d)]

\* After the loop: save_store, the summary, and main returns.
SaveStore ==
    /\ pc = "loop"
    /\ todo = {}
    /\ file' = save_store(store)
    /\ saved' = TRUE
    /\ logged' = << Rec("INFO", "Completed fetching", PyInt(Cardinality(new_uids))) >>
    /\ pc' = "exit"
    /\ exit_status' = << 0 >>
    /\ UNCHANGED << uncaught, store, mail_state, unread_uids, new_uids, todo,
                    uid, retry_count, header, file0, opened, store0, fetched,
                    attempts, sleeps, errors, last, prev, argv, args, printed,
                    made_dir, deferred, repeat, total, sessions >>

\* ------------------------------------------------------- the next invocation
FetchedOk(u) ==
    /\ u \in DOMAIN fetched
    /\ fetched[u].ret.t = "bytes"
    /\ fetched[u].ret.v # <<>>

\* The UIDs of this run whose fetch_email_header call returned None after
\* the loop ran out.
GaveUp == { u \in DOMAIN fetched : fetched[u].ret = None }

\* The program is run again over the file the last run left; g is the part
\* of this run's give-ups that the history keeps for the next run.
NextRunKeeping(g) ==
    /\ pc = "exit"
    /\ prev' = IF saved /\ \A u \in new_uids : FetchedOk(u)
                THEN [allok |-> TRUE, search |-> unread_uids, gaveup |-> {}]
                ELSE [allok |-> FALSE, search |-> {}, gaveup |-> g]
    /\ pc' = "parse_arguments"
    /\ argv' \in RunArgvs
    /\ args' = NoArgs
    /\ printed' = ""
    /\ made_dir' = FALSE
    /\ exit_status' = <<>>
    /\ uncaught' = ""
    /\ store' = EmptyDict
    /\ mail_state' = "NONAUTH"
    /\ unread_uids' = {}
    /\ new_uids' = {}
    /\ todo' = {}
    /\ uid' = None
    /\ retry_count' = 0
    /\ header' = None
    /\ logged' = <<>>
    /\ saved' = FALSE
    /\ file0' = file
    /\ opened' = ""
    /\ store0' = EmptyDict
    /\ fetched' = EmptyDict
    /\ attempts' = 0
    /\ sleeps' = <<>>
    /\ errors' = 0
    /\ last' = NoOutcome
    /\ repeat' = FALSE
    /\ sessions' = 0
    /\ total' = 0
    /\ deferred' = {}
    /\ UNCHANGED file

NextRun == NextRunKeeping({})

Next ==
    \/ ParseArguments
    \/ LoadStore
    \/ \E o \in InitOutcomes : InitializeImap(o)
    \/ \E result \in SUBSET UidTokens : Search(result)
    \/ ForNext
    \/ Sleep
    \/ \E out \in FetchOutcomes : FetchAttempt(out)
    \/ Record
    \/ SaveStore
    \/ NextRun

Spec == Init /\ [][Next]_vars

\* The same program with the history of give-ups carried from each run into
\* the next one.
NextRunDeferred == NextRunKeeping(GaveUp)

NextDeferred ==
    \/ ParseArguments
    \/ LoadStore
    \/ \E o \in InitOutcomes : InitializeImap(o)
    \/ \E result \in SUBSET UidTokens : Search(result)
    \/ ForNext
    \/ Sleep
    \/ \E out \in FetchOutcomes : FetchAttempt(out)
    \/ Record
    \/ SaveStore
    \/ NextRunDeferred

SpecDeferred == Init /\ [][NextDeferred]_vars

\* One run, from any command line up to the opening of the session.
InitArgs == Started /\ argv \in ArgvInputs

NextArgs ==
    \/ ParseArguments
    \/ LoadStore
    \/ \E o \in InitOutcomes : InitializeImap(o)

SpecArgs == InitArgs /\ [][NextArgs]_vars

\* One run with the usual command line, its FETCH commands counted.  Every
\* call the process makes returns or raises, so the process goes on as long
\* as it has a step to take.
InitRetry == Started /\ argv = UsualArgv

FetchAttemptCounted(out) == FetchAttemptCounting(out, total + 1)

NextRetry ==
    \/ ParseArguments
    \/ LoadStore
    \/ \E o \in InitOutcomes : InitializeImap(o)
    \/ \E result \in SUBSET UidTokens : Search(result)
    \/ ForNext
    \/ Sleep
    \/ \E out \in FetchOutcomes : FetchAttemptCounted(out)
    \/ Record
    \/ SaveStore

SpecRetry == InitRetry /\ [][NextRetry]_vars /\ WF_vars(NextRetry)

\* ================================================================== claims
\* The spec's success of one attempt: a non-error status and a payload
\* present.
Succeeds(out) ==
    out.status = "OK" /\ out.resp0.t = "tuple" /\ out.resp0.v # <<>>

\* The UIDs fetch_email_header was invoked for in this run.
Invoked == DOMAIN fetched

\* The store file as a dict.
FileDict == load_store(file)

\* A terminal 'Failed to fetch UID' record among the records lg.
TerminalRecords(lg) ==
    { i \in 1..Len(lg) : lg[i].msg = "Failed to fetch UID" }

\* C1: fetch_email_header is invoked for exactly the searched UIDs whose key
\* is not in the store loaded at start: none whose key is in the loaded store
\* is fetched, and by the end of the run every other one has been.
C1_FetchesExactlySearchMinusStore ==
    /\ \A u \in Invoked : DecodeStrict(u) \notin DOMAIN store0
    /\ saved => \A u \in unread_uids :
                    DecodeStrict(u) \notin DOMAIN store0 => u \in Invoked

\* C2: a run that reaches save_store leaves every key the store had before
\* the run in the saved store, with the value it had.
C2_MonotonicGrowth ==
    saved => \A k \in DOMAIN store0 :
                k \in DOMAIN FileDict /\ FileDict[k] = store0[k]

\* C3: after a run that fetched every new UID successfully, a second run
\* with the same search result fetches nothing and saves the same store.
C3_SecondRunIdempotent ==
    (saved /\ repeat)
        => (Invoked = {} /\ file = file0)

\* C4: when the attempts of a call were k errors and then a success (k + 1
\* attempts), the call has returned the payload on that attempt and goes on
\* to no further attempt or sleep, k <= timeout_limit, it slept k times for
\* timeout_wait, and main has the UID in the store once the loop body is
\* through.
C4_RetryBound ==
    /\ (Succeeds(last) /\ errors = attempts - 1)
        => /\ pc = "returned"
           /\ retry_count = errors
           /\ errors <= timeout_limit
           /\ Len(sleeps) = errors
           /\ \A i \in 1..Len(sleeps) : sleeps[i] = timeout_wait
           /\ header = Bytes(last.resp0.v)
    /\ (pc = "loop" /\ uid # None /\ Succeeds(fetched[uid].out))
        => /\ DecodeStrict(uid) \in DOMAIN store
           /\ store[DecodeStrict(uid)] = DecodeIgnore(Bytes(fetched[uid].out.resp0.v))

C4_Witness ==
    /\ pc = "returned"
    /\ Succeeds(last)
    /\ errors = 2
    /\ attempts = 3

\* C5: a call for a UID whose key was not in the loaded store and whose every
\* attempt was an error ends after timeout_limit + 1 attempts with one
\* terminal error record and no result; no other step logs that record; and
\* the key is not in the store the run saves.
C5_RetryExhaustion ==
    /\ (pc = "returned" /\ errors = attempts)
        => /\ attempts = timeout_limit + 1
           /\ header = None
           /\ Cardinality(TerminalRecords(logged)) = 1
           /\ logged[Len(logged)] = Rec("ERROR", "Failed to fetch UID", uid)
    /\ TerminalRecords(logged) # {} => (pc = "returned" /\ header = None)
    /\ saved => \A u \in Invoked :
                    (fetched[u].ret = None /\ DecodeStrict(u) \notin DOMAIN store0)
                        => DecodeStrict(u) \notin DOMAIN FileDict

C5_Witness ==
    /\ saved
    /\ \E u \in Invoked :
        /\ fetched[u].ret = None
        /\ DecodeStrict(u) \notin DOMAIN store0
    /\ \E u \in Invoked : FetchedOk(u)

\* C6: a run that got past session opening and the search ends with
\* save_store executed, and the saved store holds every UID fetched
\* successfully in the run.
C6_PartialProgressSaved ==
    (pc = "exit" /\ mail_state = "SELECTED")
        => /\ saved
           /\ \A u \in Invoked : FetchedOk(u) => DecodeStrict(u) \in DOMAIN FileDict

\* C7: a rejected login logs the credentials message, an unresolvable host
\* name logs the host-name message, and either way the process has exited
\* with status 1 with nothing searched, fetched or saved and the store file
\* as it was at process start.
C7_FatalSessionOpening ==
    /\ opened = "login_rejected"
        => logged[Len(logged)] =
              Rec("ERROR", "Failed to log in. Please check user credentials.", None)
    /\ opened = "host_unresolved"
        => logged[Len(logged)] =
              Rec("ERROR", "Failed to log in. Please check host name.", None)
    /\ opened \in {"login_rejected", "host_unresolved"}
        => /\ pc = "exit"
           /\ exit_status = << 1 >>
           /\ uncaught = ""
           /\ unread_uids = {}
           /\ Invoked = {}
           /\ ~saved
           /\ file = file0

C7_Witness ==
    /\ opened = "host_unresolved"
    /\ pc = "exit"
    /\ file0.exists
    /\ file0.text # <<>>

\* C8: in a run where fetch_email_header gave up on a UID, the process ends
\* with status 0 after fetch_email_header was invoked for every new UID.
C8_GiveUpNotEscalated ==
    (pc = "exit" /\ \E u \in Invoked : fetched[u].ret = None)
        => /\ exit_status = << 0 >>
           /\ saved
           /\ Invoked = new_uids

\* C9: right after an attempt answered OK without a payload (an empty or
\* unexpected one), the attempt has been counted and logged as a failure,
\* and the call has not returned unless that was the last attempt allowed.
C9_OkWithoutPayloadIsFailedAttempt ==
    (pc \in {"waiting", "returned"} /\ last.status = "OK" /\ ~Succeeds(last))
        => /\ retry_count = attempts
           /\ \E i \in 1..Len(logged) :
                 logged[i].level \in {"WARNING", "ERROR"} /\ logged[i].arg = uid
           /\ pc = "returned" => (attempts = timeout_limit + 1 /\ header = None)

\* C10: every key the run has added to the store, or given a new value,
\* belongs to a UID whose call returned on an attempt answered OK with a
\* payload, and its value is that payload decoded; a UID the call gave up on
\* has had nothing recorded; and the saved file is that store.
C10_OnlyFetchedHeadersRecorded ==
    /\ \A k \in DOMAIN store :
          (k \notin DOMAIN store0 \/ store[k] # store0[k])
              => \E u \in Invoked :
                    /\ DecodeStrict(u) = k
                    /\ Succeeds(fetched[u].out)
                    /\ fetched[u].ret = Bytes(fetched[u].out.resp0.v)
                    /\ store[k] = Str(SelectSeq(fetched[u].out.resp0.v, IsAscii))
    /\ \A u \in Invoked :
          (fetched[u].ret = None /\ DecodeStrict(u) \in DOMAIN store)
              => /\ DecodeStrict(u) \in DOMAIN store0
                 /\ store[DecodeStrict(u)] = store0[DecodeStrict(u)]
    /\ saved => FileDict = store

C10_Witness ==
    /\ saved
    /\ \E u \in Invoked :
        /\ fetched[u].out = [status |-> "OK", resp0 |-> Tuple(<<66, 255>>)]
        /\ DecodeStrict(u) \notin DOMAIN store0
        /\ FileDict[DecodeStrict(u)] = Str(<<66>>)
    /\ \E u \in Invoked :
        /\ fetched[u].ret = None
        /\ DecodeStrict(u) \notin DOMAIN FileDict

\* C11: an attempt that raised a protocol abort or another error has been
\* caught: the process runs on inside the call, the attempt is counted, the
\* matching error record is logged, and the call returns None if that was
\* the last attempt allowed; a call that has returned has returned None or
\* what response[0][1] of an OK answer held.
C11_AttemptErrorsContained ==
    /\ last.status \in {"abort", "raise"}
        => /\ pc \in {"waiting", "attempting", "returned"}
           /\ uncaught = ""
           /\ exit_status = <<>>
           /\ retry_count = attempts
           /\ pc \in {"waiting", "returned"}
                => logged[1] =
                     Rec("ERROR",
                         IF last.status = "abort"
                         THEN "Connection closed by server while fetching UID"
                         ELSE "Unexpected error while fetching UID",
                         uid)
           /\ pc = "returned" => (header = None /\ attempts = timeout_limit + 1)
    /\ pc = "returned"
        => \/ header = None
           \/ last.status = "OK" /\ header = Subscript1(last.resp0)

C11_Witness ==
    /\ pc = "returned"
    /\ last.status = "raise"
    /\ errors = 3
    /\ header = None

\* C12: a UID the previous run gave up on and this run's search returns
\* again has been passed to fetch_email_header by the time this run ends,
\* and when one of its attempts in this run succeeded, the file this run
\* leaves holds its header.
C12_DeferredRetry ==
    pc = "exit" =>
        \A u \in deferred :
            /\ u \in Invoked
            /\ (fetched[u].out.status = "OK" /\ Succeeds(fetched[u].out))
                 => /\ saved
                    /\ DecodeStrict(u) \in DOMAIN FileDict
                    /\ FileDict[DecodeStrict(u)] = DecodeIgnore(fetched[u].ret)

\* C13: with exactly four arguments, after parse_arguments: a fourth
\* argument that reads as a number in 1..65535 is the port and the mailbox is
\* the default 'Inbox'; a fourth argument that does not read as a number is
\* the mailbox and the port is the default 993.  Neither case prints or
\* exits.
C13_FourthArgumentPortOrMailbox ==
    (pc # "parse_arguments" /\ Len(argv) = 5) =>
        LET a == Arg(argv, 4) IN
        /\ (int(a).ok /\ int(a).n \in 1..65535)
             => /\ args = [mailbox |-> Inbox, imap_port |-> int(a).n]
                /\ printed = ""
        /\ ~int(a).ok
             => /\ args = [mailbox |-> a, imap_port |-> 993]
                /\ printed = ""

C13_Witness ==
    /\ pc = "main"
    /\ Arg(argv, Len(argv) - 1) = << "6", "5", "5", "3", "5" >>
    /\ Len(argv) = 5
    /\ args = [mailbox |-> Inbox, imap_port |-> 65535]

\* C14: the call of fetch_email_header is in one of attempting, waiting,
\* succeeded (returned on an OK answer), exhausted (returned None after the
\* loop).  It starts in attempting with no sleep made; a sleep is made only
\* from waiting and leads to attempting; each attempt but the first has
\* exactly one sleep before it and no sleep follows the last one; a call
\* makes at most N+1 attempts; a call under way always eventually returns;
\* the run makes at most |new_uids| * (N+1) attempts and always ends.
InCall == pc \in {"attempting", "waiting", "returned"}
Succeeded == pc = "returned" /\ Returns(last)
Exhausted == pc = "returned" /\ ~Returns(last)

C14_RetryStateMachine ==
    /\ [](InCall => attempts <= timeout_limit + 1)
    /\ [](pc = "attempting" => Len(sleeps) = attempts)
    /\ [](pc = "waiting" => (attempts \in 1..timeout_limit
                              /\ Len(sleeps) = attempts - 1))
    /\ [](pc = "returned" => (attempts >= 1 /\ Len(sleeps) = attempts - 1))
    /\ [](Exhausted => (attempts = timeout_limit + 1 /\ header = None))
    /\ [](total <= Cardinality(new_uids) * (timeout_limit + 1))
    /\ [][(pc = "loop" /\ pc' \notin {"loop", "exit"})
            => (pc' = "attempting" /\ attempts' = 0 /\ sleeps' = <<>>)]_vars
    /\ [][sleeps' # sleeps
            => (sleeps' = <<>>
                \/ (pc = "waiting" /\ pc' = "attempting"
                     /\ attempts' = attempts))]_vars
    /\ (pc \in {"attempting", "waiting"}) ~> (Succeeded \/ Exhausted)
    /\ (pc = "loop") ~> (pc = "exit")

C14_Witness ==
    /\ Exhausted
    /\ Len(sleeps) = timeout_limit
    /\ Cardinality(new_uids) = 2
    /\ total = 2 * (timeout_limit + 1)

\* C15: once initialize_imap has met a select answered with a status other
\* than OK, the process has exited with a nonzero status, the step that ended
\* it logged an error record, and the run has searched, fetched and saved
\* nothing.
C15_SelectFailureIsFatal ==
    opened = "select_no" =>
        /\ pc = "exit"
        /\ exit_status # <<>> /\ exit_status # << 0 >>
        /\ \E i \in 1..Len(logged) : logged[i].level = "ERROR"
        /\ unread_uids = {} /\ fetched = EmptyDict /\ ~saved

\* C16: whatever order the for loop takes the new UIDs in, the store file a
\* run leaves is fixed by what fetch_email_header returned for each UID: if
\* one of the returned headers cannot be decoded nothing is saved and the
\* file is as at process start, otherwise the file is the loaded store with
\* the entry of every UID that returned a header, and nothing else.
Recorded == { u \in Invoked : Truthy(fetched[u].ret) }

ExpectedStore ==
    [k \in DOMAIN store0 \cup { DecodeStrict(u) : u \in Recorded } |->
        IF \E u \in Recorded : DecodeStrict(u) = k
        THEN DecodeIgnore(fetched[CHOOSE u \in Recorded : DecodeStrict(u) = k].ret)
        ELSE store0[k]]

C16_OrderIndependence ==
    (pc = "exit" /\ opened = "ok") =>
        IF \E u \in Invoked : DecodeRaises(fetched[u].ret)
        THEN ~saved /\ file = file0
        ELSE /\ saved
             /\ Invoked = new_uids
             /\ file = save_store(ExpectedStore)

C16_Witness ==
    /\ pc = "exit"
    /\ saved
    /\ Cardinality(new_uids) = 2
    /\ Cardinality(Recorded) = 2
    /\ \E u, w \in Recorded : fetched[u].ret # fetched[w].ret
    /\ file0.exists

\* C17: a run opens at most one session, and exactly one before it searches
\* or fetches; no attempt, a protocol abort included, opens another or
\* changes the connection state; at most one call of fetch_email_header is
\* under way, and the loop variable moves to the next UID only from the top
\* of the for loop, after the call for the UID before has returned.
C17_SingleSessionSequentialFetch ==
    /\ [](sessions <= 1)
    /\ []((pc \in {"search", "loop", "attempting", "waiting", "returned"}
            \/ unread_uids # {} \/ Invoked # {}) => sessions = 1)
    /\ [](last.status = "abort" => (sessions = 1 /\ mail_state = "SELECTED"))
    /\ [](\A u \in Invoked :
            fetched[u].ret = Pending
              => (u = uid /\ pc \in {"attempting", "waiting"}))
    /\ [][(pc \in {"attempting", "waiting", "returned"})
            => (sessions' = sessions /\ mail_state' = mail_state)]_vars
    /\ [][(uid' # uid /\ pc # "exit")
            => (pc = "loop" /\ uid' \notin Invoked
                /\ \A u \in Invoked : fetched[u].ret # Pending)]_vars

C17_Witness ==
    /\ pc = "attempting"
    /\ last.status = "abort"
    /\ attempts = 2
    /\ Cardinality(Invoked) = 2
    /\ sessions = 1

\* C18: until save_store has run the store file is the one the process
\* started with, however the run ends; save_store runs only when the for
\* loop is through and the process then exits; while the run lasts, every
\* entry the loaded store had is in main's store with the value it had.
C18_FileWrittenOnceAfterLoop ==
    /\ ~saved => file = file0
    /\ saved => /\ pc = "exit"
                /\ todo = {}
                /\ Invoked = new_uids
                /\ file = save_store(store)
    /\ pc \in {"loop", "attempting", "waiting", "returned", "exit"}
         => \A k \in DOMAIN store0 :
                k \in DOMAIN store /\ store[k] = store0[k]

\* C19: the value supplied as the port is the fifth argument or, when there
\* are four, a fourth argument that reads as a number.  Once parse_arguments
\* is through with a command line of fewer than three arguments, or one whose
\* value supplied as the port is no number in 1..65535, the process has
\* exited with status 1 and has made no directory, logged nothing, loaded no
\* store, opened no session and written no file.
IsPort(a) == int(a).ok /\ int(a).n \in 1..65535

InvalidInvocation ==
    \/ Len(argv) < 4
    \/ Len(argv) > 5 /\ ~IsPort(Arg(argv, 5))
    \/ Len(argv) = 5 /\ int(Arg(argv, 4)).ok /\ ~IsPort(Arg(argv, 4))

C19_InvalidInvocationExitsFirst ==
    (pc # "parse_arguments" /\ InvalidInvocation) =>
        /\ pc = "exit"
        /\ exit_status = << 1 >>
        /\ printed # ""
        /\ ~made_dir
        /\ logged = <<>>
        /\ opened = "" /\ sessions = 0
        /\ ~saved /\ file = file0

====
